---- MODULE Spec2Model ----
(***************************************************************************)
(* A model of dynamesa.Table (src/dynamesa.py): get, put, update, find and *)
(* clear over one DynamoDB table, together with the part of the service    *)
(* those methods talk to (GetItem, PutItem, UpdateItem, paginated Query    *)
(* and Scan, the batch writer).                                            *)
(*                                                                         *)
(* A Python dict is a sequence of <<key, value>> pairs (dicts keep their   *)
(* insertion order); a stored item is a function from the names of its     *)
(* attributes to their values.  Attribute values are naturals; the         *)
(* sentinels are integers outside the values a caller can store.           *)
(*                                                                         *)
(* The registry of tables, _TableGetter, is modelled next to it: its cache *)
(* of Table objects over the table names of the service, called by one     *)
(* caller (SpecTables) and by several threads at once (SpecThreads).       *)
(***************************************************************************)
EXTENDS Integers, Sequences, FiniteSets, TLC

VARIABLES
    key_schema,   \* self.table.key_schema: the names of the primary-key attributes
    store,        \* the items the service holds for the table
    caller,       \* the object the caller handed to the last put/update, as it is now
    last,         \* the last Table call: its input, the requests it made, its outcome
    gen,          \* the generator returned by the last Table.find
    again,        \* the last call was a clear that repeated the clear before it
    table_name_prefix,  \* _TableGetter.table_name_prefix
    service,      \* the names of the tables the service holds
    _tables,      \* _TableGetter._tables: (table name, item type) -> Table
    made,         \* the number of Table objects constructed so far
    lastTables,   \* the last call on the registry: its input and its outcome
    handles,      \* the handle the registry's get returned last for each (name, item type)
    threads       \* the threads inside a concurrent get: their position and locals

\* The state of one table, and the state of the registry of tables.
tableVars == <<key_schema, store, caller, last, gen, again>>

registryVars == <<table_name_prefix, service, _tables, made, lastTables, handles, threads>>

vars == <<tableVars, registryVars>>

----------------------------------------------------------------------------
(* Bounds *)

MaxItems == 2      \* the table holds at most this many items
PageSize == 1      \* the items the service evaluates for one page of a query or scan
FlushAmount == 1   \* the deletes the batch writer buffers before it sends them
MaxTables == 3     \* the tables the service holds at most
MaxMade == 6       \* the Table objects constructed in one behaviour at most

----------------------------------------------------------------------------
(* Sentinels, src/dynamesa.py:32-34 *)

REMOVE_KEY == 0 - 2
MISSING_KEY == 0 - 1

\* The attribute values of the model.
Vals == {1, 2}

\* Attributes of the User table of src/tests.py, in the order UserModel declares them.
FieldOrder == <<"id", "ts", "age">>
Fields == {FieldOrder[i] : i \in DOMAIN FieldOrder}

\* Table schemas: a hash key, or a hash and a range key.
Schemas == {<<"id">>, <<"id", "ts">>}

SeqSet(s) == {s[i] : i \in DOMAIN s}

----------------------------------------------------------------------------
(* Python dicts as sequences of <<key, value>> pairs *)

DictKeys(d) == {d[i][1] : i \in DOMAIN d}

DictGet(d, k) == d[CHOOSE i \in DOMAIN d : d[i][1] = k][2]

DictPop(d, k) == SelectSeq(d, LAMBDA p : p[1] # k)

DictSet(d, k, v) == [i \in DOMAIN d |-> IF d[i][1] = k THEN <<k, v>> ELSE d[i]]

\* The attribute map boto3 sends for a dict.
AsItem(d) == [k \in DictKeys(d) |-> DictGet(d, k)]

\* The dict with the entries of f for the keys of order that f has, in that order.
AsDict(f, order) ==
    LET ks == SelectSeq(order, LAMBDA k : k \in DOMAIN f)
    IN  [i \in DOMAIN ks |-> <<ks[i], f[ks[i]]>>]

itemdictKeepsMissing(d) == d

\* itemdict: the dict of an item without its MISSING_KEY entries (a new dict).
itemdict(d) == SelectSeq(d, LAMBDA p : p[2] # MISSING_KEY)

RECURSIVE Join(_, _)
\* sep.join(parts)
Join(parts, sep) ==
    IF parts = <<>> THEN ""
    ELSE IF Len(parts) = 1 THEN parts[1]
    ELSE parts[1] \o sep \o Join(Tail(parts), sep)

----------------------------------------------------------------------------
(* The service behind self.table *)

KeyOf(item) == [k \in SeqSet(key_schema) |-> item[k]]

\* The stored items with the given key (at most one).
Stored(key) == {it \in store : KeyOf(it) = key}

\* boto3's TypeSerializer refuses a value that is no DynamoDB type, such as a Sentinal.
Serializable(f) == \A k \in DOMAIN f : f[k] \in Vals

\* The service refuses an item that lacks a key attribute of the table.
ValidItem(item) == SeqSet(key_schema) \subseteq DOMAIN item

\* PutItem: the item replaces the one with the same key.
PutItem(item) == (store \ Stored(KeyOf(item))) \cup {item}

\* The item UpdateItem leaves under the request's key: each SET clause assigns
\* the value of its value placeholder to the attribute of its name placeholder,
\* each REMOVE clause deletes the attribute of its name placeholder.  An item
\* that is not stored yet starts as its key.
UpdatedItem(req) ==
    LET old == IF Stored(req.Key) = {} THEN req.Key ELSE CHOOSE it \in Stored(req.Key) : TRUE
        names == req.ExpressionAttributeNames
        values == req.ExpressionAttributeValues
        sets == req.SetClauses
        removed == {names[req.RemoveClauses[i].name] : i \in DOMAIN req.RemoveClauses}
        assigned == {names[sets[i].name] : i \in DOMAIN sets}
        clauseOf(a) == sets[CHOOSE i \in DOMAIN sets : names[sets[i].name] = a]
    IN  [a \in ((DOMAIN old \cup assigned) \ removed) |->
            IF a \in assigned THEN values[clauseOf(a).value] ELSE old[a]]

UpdateItem(req) == (store \ Stored(req.Key)) \cup {UpdatedItem(req)}

----------------------------------------------------------------------------
(* The record of a call *)

None == <<>>

NoCaller == [kind |-> "dict", d |-> <<>>]

Call(op, kind, arg, requests, atRequest, outcome, error, result) ==
    [op |-> op, kind |-> kind, arg |-> arg, pre |-> store, requests |-> requests,
     callerAtRequest |-> atRequest, outcome |-> outcome, error |-> error,
     result |-> result]

NoCall == [op |-> "none", kind |-> "dict", arg |-> <<>>, pre |-> {}, requests |-> <<>>,
           callerAtRequest |-> <<>>, outcome |-> "returned", error |-> "", result |-> None]

NoGen == [pc |-> "none"]

\* No call is under way and the caller holds no result: it can make its next call.
Idle == last.op = "none" /\ gen.pc = "none"

\* The caller is done with the outcome of its last call, or with a generator
\* that has ended.
Discard ==
    /\ ~Idle
    /\ gen.pc \notin {"created", "running"}
    /\ last' = NoCall
    /\ caller' = NoCaller
    /\ gen' = NoGen
    /\ again' = FALSE
    /\ UNCHANGED <<key_schema, store, registryVars>>

----------------------------------------------------------------------------
(* Table.get *)

\* The key attributes get does not find in its keyword arguments, in schema order.
MissingKeys(kwargs) == SelectSeq(key_schema, LAMBDA k : k \notin DictKeys(kwargs))

\* dynamo_key: the keyword arguments of the key schema.
DynamoKey(kwargs) == [k \in SeqSet(key_schema) |-> DictGet(kwargs, k)]

UnexpectedKwargsIgnored(kwargs) == {}

\* unexpected_kwargs: the keyword arguments that are no key attribute.
UnexpectedKwargs(kwargs) == DictKeys(kwargs) \ SeqSet(key_schema)

Get(kwargs) ==
    /\ Idle
    /\ IF MissingKeys(kwargs) # <<>>
       THEN last' = Call("get", "dict", kwargs, <<>>, <<>>, "ValueError", "missing key", None)
       ELSE IF UnexpectedKwargs(kwargs) # {}
       THEN last' = Call("get", "dict", kwargs, <<>>, <<>>, "ValueError", "unexpected", None)
       ELSE LET req == [op |-> "GetItem", Key |-> DynamoKey(kwargs)]
                found == Stored(req.Key)
            IN  IF found = {}
                THEN last' = Call("get", "dict", kwargs, <<req>>, <<>>, "DoesNotExist", "", None)
                ELSE last' = Call("get", "dict", kwargs, <<req>>, <<>>, "returned", "",
                                  CHOOSE it \in found : TRUE)
    /\ caller' = NoCaller
    /\ UNCHANGED <<key_schema, store, gen, again, registryVars>>

----------------------------------------------------------------------------
(* Table.put *)

Put(kind, item) ==
    LET Item == AsItem(itemdict(item))
        req == [op |-> "PutItem", Item |-> Item]
    IN  /\ Idle
        /\ caller' = [kind |-> kind, d |-> item]
        /\ IF ~Serializable(Item)
           THEN /\ last' = Call("put", kind, item, <<>>, <<>>, "TypeError", "", None)
                /\ store' = store
           ELSE IF ~ValidItem(Item)
           THEN /\ last' = Call("put", kind, item, <<req>>, item, "ClientError", "", None)
                /\ store' = store
           ELSE /\ Cardinality(PutItem(Item)) <= MaxItems
                /\ last' = Call("put", kind, item, <<req>>, item, "returned", "", Item)
                /\ store' = PutItem(Item)
        /\ UNCHANGED <<key_schema, gen, again, registryVars>>

----------------------------------------------------------------------------
(* Table.update *)

\* The first key attribute of the schema that the update dict lacks, if any.
MissingUpdateKeys(update) == SelectSeq(key_schema, LAMBDA k : k \notin DictKeys(update))

\* pk: the key attributes popped from the update dict.
UpdatePk(update) == [k \in SeqSet(key_schema) |-> DictGet(update, k)]

NoUpdatesUnchecked(update) == FALSE

\* "if not update": only the primary key was given.
NoUpdates(update) == update = <<>>

RECURSIVE PopAll(_, _)
PopAll(d, ks) == IF ks = <<>> THEN d ELSE PopAll(DictPop(d, Head(ks)), Tail(ks))

ForgetFieldOfDictOnly(orig, key) ==
    IF orig.kind = "dict" THEN [orig EXCEPT !.d = DictPop(orig.d, key)] ELSE orig

\* What the REMOVE_KEY branch does to the caller's object: a dict loses the
\* key, any other object gets the attribute set to MISSING_KEY.
ForgetField(orig, key) ==
    IF orig.kind = "dict"
    THEN [orig EXCEPT !.d = DictPop(orig.d, key)]
    ELSE [orig EXCEPT !.d = DictSet(orig.d, key, MISSING_KEY)]

EmptyParts(orig) ==
    [expression_attrs |-> <<>>, expression_vals |-> <<>>,
     set_parts |-> <<>>, remove_parts |-> <<>>, orig_update |-> orig]

UpdateStepSetsRemoved(acc, i, key, val) ==
    LET a == "#a" \o ToString(i)
        v == ":v" \o ToString(i)
        named == [acc EXCEPT !.expression_attrs = (a :> key) @@ acc.expression_attrs]
    IN  IF val = MISSING_KEY THEN named
        ELSE [named EXCEPT
                !.expression_vals = (v :> val) @@ acc.expression_vals,
                !.set_parts = Append(acc.set_parts,
                                     [text |-> a \o " = " \o v, name |-> a, value |-> v])]

\* One iteration of the loop over enumerate(update.items()); i counts from 0.
UpdateStep(acc, i, key, val) ==
    LET a == "#a" \o ToString(i)
        v == ":v" \o ToString(i)
        named == [acc EXCEPT !.expression_attrs = (a :> key) @@ acc.expression_attrs]
    IN  IF val = MISSING_KEY THEN named
        ELSE IF val = REMOVE_KEY
        THEN [named EXCEPT
                !.orig_update = ForgetField(acc.orig_update, key),
                !.remove_parts = Append(acc.remove_parts, [text |-> a, name |-> a])]
        ELSE [named EXCEPT
                !.expression_vals = (v :> val) @@ acc.expression_vals,
                !.set_parts = Append(acc.set_parts,
                                     [text |-> a \o " = " \o v, name |-> a, value |-> v])]

RECURSIVE UpdateLoop(_, _, _)
UpdateLoop(update, n, orig) ==
    IF n = 0 THEN EmptyParts(orig)
    ELSE UpdateStep(UpdateLoop(update, n - 1, orig), n - 1, update[n][1], update[n][2])

Texts(parts) == [i \in DOMAIN parts |-> parts[i].text]

UpdateExpressionNoSeparator(set_parts, remove_parts) ==
    (IF set_parts # <<>> THEN "SET " \o Join(Texts(set_parts), ", ") ELSE "")
    \o (IF remove_parts # <<>> THEN "REMOVE " \o Join(Texts(remove_parts), ", ") ELSE "")

\* update_expression: "SET " and the set clauses, then " REMOVE " and the remove clauses.
UpdateExpression(set_parts, remove_parts) ==
    (IF set_parts # <<>> THEN "SET " \o Join(Texts(set_parts), ", ") ELSE "")
    \o (IF remove_parts # <<>> THEN " REMOVE " \o Join(Texts(remove_parts), ", ") ELSE "")

UpdateRequest(pk, p) ==
    [op |-> "UpdateItem", Key |-> pk, ReturnValues |-> "ALL_NEW",
     UpdateExpression |-> UpdateExpression(p.set_parts, p.remove_parts),
     SetClauses |-> p.set_parts, RemoveClauses |-> p.remove_parts,
     ExpressionAttributeNames |-> p.expression_attrs,
     ExpressionAttributeValues |-> p.expression_vals]

Update(kind, arg) ==
    LET orig == [kind |-> kind, d |-> arg]
        update0 == itemdict(arg)
        update == PopAll(update0, key_schema)
        p == UpdateLoop(update, Len(update), orig)
        req == UpdateRequest(UpdatePk(update0), p)
    IN  /\ Idle
        /\ UNCHANGED <<key_schema, gen, again, registryVars>>
        /\ IF MissingUpdateKeys(update0) # <<>>
           THEN /\ last' = Call("update", kind, arg, <<>>, <<>>, "ValueError", "missing key", None)
                /\ caller' = orig
                /\ store' = store
           ELSE IF NoUpdates(update)
           THEN /\ last' = Call("update", kind, arg, <<>>, <<>>, "ValueError", "no updates", None)
                /\ caller' = orig
                /\ store' = store
           ELSE IF ~Serializable(req.Key)
           THEN /\ last' = Call("update", kind, arg, <<>>, <<>>, "TypeError", "", None)
                /\ caller' = p.orig_update
                /\ store' = store
           ELSE /\ caller' = p.orig_update
                /\ \/ /\ Cardinality(UpdateItem(req)) <= MaxItems
                      /\ store' = UpdateItem(req)
                      /\ last' = Call("update", kind, arg, <<req>>, p.orig_update.d,
                                      "returned", "", UpdatedItem(req))
                   \/ /\ store' = store
                      /\ last' = Call("update", kind, arg, <<req>>, p.orig_update.d,
                                      "ClientError", "", None)

----------------------------------------------------------------------------
(* Conditions (boto3.dynamodb.conditions) and the indexes of the table *)

\* The positional arguments of find are the PRIMARY_KEY sentinel, strings and
\* condition expressions.  A condition is the set of the comparisons it ANDs.
PRIMARY_KEY == [kind |-> "Sentinal", name |-> "Primary Key", expr |-> {}]

Str(name) == [kind |-> "str", name |-> name, expr |-> {}]

Cond(expr) == [kind |-> "cond", name |-> "", expr |-> expr]

\* Key(k).eq(v)
KeyEq(k, v) == [attr |-> k, op |-> "eq", val |-> v]

\* Key(k).gt(v)
KeyGt(k, v) == [attr |-> k, op |-> "gt", val |-> v]

\* functools.reduce(operator.and_, conditions), for a set of conditions
AndAll(conds) == UNION conds

\* self.table.global_secondary_indexes
GlobalSecondaryIndexes == {[IndexName |-> "AgeIndex", KeySchema |-> <<"age">>]}

\* The local secondary indexes of the table: a table with a range key has one.
LocalSecondaryIndexes ==
    IF Len(key_schema) = 2
    THEN {[IndexName |-> "ByAge", KeySchema |-> <<"id", "age">>]}
    ELSE {}

\* The key schema the service uses for a query: the table's, or that of the
\* secondary index named IndexName.
QuerySchema(params) ==
    IF "IndexName" \notin DOMAIN params THEN key_schema
    ELSE (CHOOSE idx \in GlobalSecondaryIndexes \cup LocalSecondaryIndexes :
              idx.IndexName = params["IndexName"]).KeySchema

Holds(item, c) ==
    /\ c.attr \in DOMAIN item
    /\ IF c.op = "eq" THEN item[c.attr] = c.val ELSE item[c.attr] > c.val

Satisfies(item, expr) == \A c \in expr : Holds(item, c)

Optional(params, name) == IF name \in DOMAIN params THEN params[name] ELSE {}

\* The item is in the result of the request: it is in the index, meets the key
\* condition and passes the filter.
Matches(item, req) ==
    /\ req.op = "query" => SeqSet(QuerySchema(req.params)) \subseteq DOMAIN item
    /\ Satisfies(item, Optional(req.params, "KeyConditionExpression"))
    /\ Satisfies(item, Optional(req.params, "FilterExpression"))

\* The service accepts a query whose key condition is an equality on the hash key
\* of the index, with at most one more comparison, on its range key, and whose
\* filter names no key attribute of the index; it accepts every scan with a filter
\* only.
ValidRequest(req) ==
    IF req.op = "scan" THEN "KeyConditionExpression" \notin DOMAIN req.params
    ELSE /\ "IndexName" \in DOMAIN req.params =>
               \E idx \in GlobalSecondaryIndexes \cup LocalSecondaryIndexes :
                   idx.IndexName = req.params["IndexName"]
         /\ "KeyConditionExpression" \in DOMAIN req.params
         /\ LET schema == QuerySchema(req.params)
                kc == req.params["KeyConditionExpression"]
            IN  /\ \A c \in kc : c.attr \in SeqSet(schema)
                /\ \E c \in kc : c.attr = schema[1] /\ c.op = "eq"
                /\ \A c, e \in kc : c.attr = e.attr => c = e
                /\ \A c \in Optional(req.params, "FilterExpression") :
                       c.attr \notin SeqSet(schema)

----------------------------------------------------------------------------
(* Table.find: the request it builds *)

\* "args and (args[0] is PRIMARY_KEY or isinstance(args[0], str))"
HasSelector(args) == args # <<>> /\ (args[1] = PRIMARY_KEY \/ args[1].kind = "str")

\* The positional arguments after the index selector.
AfterSelector(args) == IF HasSelector(args) THEN Tail(args) ELSE args

\* "if args and args[0]": a positional argument follows the selector.
ExplicitKeyCondition(args) == HasSelector(args) /\ AfterSelector(args) # <<>>

\* The positional arguments left once the key condition is taken.
Trailing(args) ==
    IF ExplicitKeyCondition(args) THEN Tail(AfterSelector(args)) ELSE AfterSelector(args)

\* next(idx for idx in self.table.global_secondary_indexes if idx["IndexName"] == index_name)
IndexLookup(name) == {idx \in GlobalSecondaryIndexes : idx.IndexName = name}

\* idx_keys, where find assigns it; Unbound where it does not.
Unbound == {"<unbound>"}

IdxKeys(args) ==
    IF ExplicitKeyCondition(args) THEN Unbound
    ELSE IF args[1] = PRIMARY_KEY THEN SeqSet(key_schema)
    ELSE SeqSet((CHOOSE idx \in IndexLookup(args[1].name) : TRUE).KeySchema)

KwargsFilters(kwargs, idx_keys) ==
    {{KeyEq(k, DictGet(kwargs, k))} : k \in DictKeys(kwargs) \ idx_keys}

Entry(name, value) == name :> value

Raise(error) == [error |-> error, op |-> "", params |-> <<>>]

PaginatorByIndexName(args) ==
    IF HasSelector(args) /\ args[1] # PRIMARY_KEY THEN "query" ELSE "scan"

\* "if index_name: ... get_paginator("query") else: ... get_paginator("scan")"
Paginator(args) == IF HasSelector(args) THEN "query" ELSE "scan"

Paginate(op, params) == [error |-> "", op |-> op, params |-> params]

\* The filters of a call, and the FilterExpression entry they make (none for no filter).
FilterEntry(filters) ==
    IF filters = {} THEN <<>> ELSE Entry("FilterExpression", AndAll(filters))

TrailingFilter(args) == {Trailing(args)[i].expr : i \in DOMAIN Trailing(args)}

\* The body of find up to the choice of the paginator: the error it raises, or
\* the paginator it asks for and the paginate_kwargs.
FindRequest(args, kwargs) ==
    IF HasSelector(args)
    THEN LET index_name == args[1]
             named == IF index_name # PRIMARY_KEY
                      THEN Entry("IndexName", index_name.name) ELSE <<>>
         IN  IF ExplicitKeyCondition(args)
             THEN IF kwargs # <<>> /\ IdxKeys(args) = Unbound THEN Raise("NameError")
                  ELSE IF Len(Trailing(args)) > 1 THEN Raise("AssertionError")
                  ELSE Paginate(Paginator(args),
                        named @@ Entry("KeyConditionExpression", AfterSelector(args)[1].expr)
                              @@ FilterEntry(TrailingFilter(args)))
             ELSE IF index_name # PRIMARY_KEY /\ IndexLookup(index_name.name) = {}
                  THEN Raise("RuntimeError")
             ELSE IF ~(IdxKeys(args) \subseteq DictKeys(kwargs)) THEN Raise("KeyError")
             ELSE Paginate(Paginator(args),
                    named @@ Entry("KeyConditionExpression",
                                   {KeyEq(k, DictGet(kwargs, k)) : k \in IdxKeys(args)})
                          @@ FilterEntry(KwargsFilters(kwargs, IdxKeys(args))))
    ELSE IF args # <<>> \/ kwargs # <<>>
    THEN IF Len(args) > 1 THEN Raise("AssertionError")
         ELSE Paginate(Paginator(args), FilterEntry(KwargsFilters(kwargs, {}) \cup TrailingFilter(args)))
    ELSE Paginate(Paginator(args), <<>>)

----------------------------------------------------------------------------
(* The paginated Query and Scan of the service *)

NoKey == <<>>

\* The order in which the service returns items: by hash key, then by range key.
KeyLess(a, b) ==
    \/ a[key_schema[1]] < b[key_schema[1]]
    \/ /\ a[key_schema[1]] = b[key_schema[1]]
       /\ Len(key_schema) = 2
       /\ a[key_schema[2]] < b[key_schema[2]]

RECURSIVE SortedByKey(_)
SortedByKey(S) ==
    IF S = {} THEN <<>>
    ELSE LET first == CHOOSE it \in S : \A other \in S \ {it} : KeyLess(it, other)
         IN  <<first>> \o SortedByKey(S \ {first})

\* One page: the service evaluates up to PageSize items of the index that meet
\* the key condition and come after ExclusiveStartKey, returns those that pass
\* the filter, and a LastEvaluatedKey unless it reached the end.
Page(req, start, S) ==
    LET inIndex == {it \in S :
                      /\ req.op = "query" =>
                            SeqSet(QuerySchema(req.params)) \subseteq DOMAIN it
                      /\ Satisfies(it, Optional(req.params, "KeyConditionExpression"))
                      /\ start = NoKey \/ KeyLess(start, it)}
        candidates == SortedByKey(inIndex)
        evaluated == SubSeq(candidates, 1,
                            IF Len(candidates) < PageSize THEN Len(candidates) ELSE PageSize)
    IN  [Items |-> SelectSeq(evaluated,
                     LAMBDA it : Satisfies(it, Optional(req.params, "FilterExpression"))),
         LastEvaluatedKey |-> IF Len(candidates) > PageSize
                              THEN KeyOf(evaluated[PageSize]) ELSE NoKey]

----------------------------------------------------------------------------
(* Table.find: the generator *)

\* Calling find runs none of its body: it returns a generator.
NewGen(args, kwargs) ==
    [pc |-> "created", args |-> args, kwargs |-> kwargs, req |-> Paginate("", <<>>),
     error |-> "", requested |-> 0, start |-> NoKey, exhausted |-> FALSE,
     buffer |-> <<>>, pages |-> <<>>, yielded |-> <<>>]

RECURSIVE PullEager(_, _)
PullEager(g, S) ==
    IF g.buffer # <<>>
    THEN LET y == [g EXCEPT !.buffer = Tail(g.buffer),
                            !.yielded = Append(g.yielded, Head(g.buffer))]
         IN  IF y.buffer # <<>> \/ y.exhausted THEN y
             ELSE LET page == Page(y.req, y.start, S)
                  IN  [y EXCEPT !.requested = y.requested + 1,
                                !.pages = Append(y.pages, page.Items),
                                !.buffer = page.Items,
                                !.start = page.LastEvaluatedKey,
                                !.exhausted = (page.LastEvaluatedKey = NoKey)]
    ELSE IF g.exhausted THEN [g EXCEPT !.pc = "done"]
    ELSE LET page == Page(g.req, g.start, S)
         IN  PullEager([g EXCEPT !.requested = g.requested + 1,
                                 !.pages = Append(g.pages, page.Items),
                                 !.buffer = page.Items,
                                 !.start = page.LastEvaluatedKey,
                                 !.exhausted = (page.LastEvaluatedKey = NoKey)], S)

RECURSIVE Pull(_, _)
\* "for page in paginator: for item in page["Items"]: yield": run to the next
\* yield, asking the service for a page whenever the current one is used up.
Pull(g, S) ==
    IF g.buffer # <<>>
    THEN [g EXCEPT !.buffer = Tail(g.buffer),
                   !.yielded = Append(g.yielded, Head(g.buffer))]
    ELSE IF g.exhausted THEN [g EXCEPT !.pc = "done"]
    ELSE LET page == Page(g.req, g.start, S)
         IN  Pull([g EXCEPT !.requested = g.requested + 1,
                            !.pages = Append(g.pages, page.Items),
                            !.buffer = page.Items,
                            !.start = page.LastEvaluatedKey,
                            !.exhausted = (page.LastEvaluatedKey = NoKey)], S)

\* next(generator): the first one runs the body of find from its top.
Resume(g, S) ==
    IF g.pc = "created"
    THEN LET req == FindRequest(g.args, g.kwargs)
         IN  IF req.error # "" THEN [g EXCEPT !.pc = "raised", !.error = req.error]
             ELSE IF ~ValidRequest(req)
             THEN [g EXCEPT !.pc = "raised", !.error = "ClientError", !.req = req,
                            !.requested = 1]
             ELSE Pull([g EXCEPT !.pc = "running", !.req = req], S)
    ELSE IF g.pc = "running" THEN Pull(g, S)
    ELSE g

FindCall(args, kwargs) ==
    /\ Idle
    /\ gen' = NewGen(args, kwargs)
    /\ UNCHANGED <<key_schema, store, caller, last, again, registryVars>>

\* The consumer asks the generator for its next item.
GenNext ==
    /\ gen.pc # "none"
    /\ gen' = Resume(gen, store)
    /\ UNCHANGED <<key_schema, store, caller, last, again, registryVars>>

\* The consumer stops before the end and drops the generator.
GenClose ==
    /\ gen.pc \in {"created", "running"}
    /\ gen' = [gen EXCEPT !.pc = "closed"]
    /\ UNCHANGED <<key_schema, store, caller, last, again, registryVars>>

----------------------------------------------------------------------------
(* Table.clear *)

DeleteKeyHashOnly(item) == [k \in {key_schema[1]} |-> item[k]]

\* Key={k["AttributeName"]: item[k["AttributeName"]] for k in self.table.key_schema}
DeleteKey(item) == [k \in SeqSet(key_schema) |-> AsItem(itemdict(AsDict(item, FieldOrder)))[k]]

\* The batch writer sends its buffered deletes.
Flush(S, batch) == {it \in S : \A i \in DOMAIN batch : KeyOf(it) # batch[i]}

RECURSIVE ClearLoop(_, _, _, _)

\* batch.delete_item: the batch writer buffers the delete, and sends the buffer
\* once FlushAmount deletes are in it.
BatchDelete(r, S, buffered, deleted) ==
    IF Len(buffered) >= FlushAmount
    THEN ClearLoop(r, Flush(S, buffered), <<>>, deleted \o buffered)
    ELSE ClearLoop(r, S, buffered, deleted)

\* The body of the for loop for the item the generator yielded; the end of the
\* batch writer's block, which sends what is buffered, when it yielded none.
ClearItem(r, S, batch, deleted) ==
    IF r.pc = "running"
    THEN BatchDelete(r, S, Append(batch, DeleteKey(r.yielded[Len(r.yielded)])), deleted)
    ELSE [gen |-> r, store |-> Flush(S, batch), deleted |-> deleted \o batch]

\* "for item in self.find(...): batch.delete_item(...)" inside the batch writer.
ClearLoop(g, S, batch, deleted) == ClearItem(Resume(g, S), S, batch, deleted)

DeleteRequests(keys) == [i \in DOMAIN keys |-> [op |-> "DeleteItem", Key |-> keys[i]]]

\* The state a run of clear leaves, and the record of the call.
ClearDone(args, kwargs, repeated, run) ==
    /\ store' = run.store
    /\ last' = Call("clear", "dict", [args |-> args, kwargs |-> kwargs],
                    DeleteRequests(run.deleted), <<>>,
                    IF run.gen.pc = "raised" THEN run.gen.error ELSE "returned",
                    run.gen.error, run.gen)
    /\ again' = repeated
    /\ UNCHANGED <<key_schema, caller, gen, registryVars>>

ClearRun(args, kwargs, repeated) ==
    ClearDone(args, kwargs, repeated, ClearLoop(NewGen(args, kwargs), store, <<>>, <<>>))

Clear(args, kwargs) == Idle /\ ClearRun(args, kwargs, FALSE)

\* The caller makes the clear call that has just completed once more.
ClearAgain ==
    /\ last.op = "clear"
    /\ last.outcome = "returned"
    /\ gen.pc = "none"
    /\ ~again
    /\ ClearRun(last.arg.args, last.arg.kwargs, TRUE)

----------------------------------------------------------------------------
(* Inputs *)

\* The values a caller passes for an attribute of an item or an update.
InputVals == Vals \cup {MISSING_KEY, REMOVE_KEY}

\* Every mapping of some of the fields to values of V.
Mappings(V) == UNION {[D -> V] : D \in SUBSET Fields}

\* Keyword arguments and dict literals, written in the order of FieldOrder.
Dicts(V) == {AsDict(m, FieldOrder) : m \in Mappings(V)}

\* A record-like object (a dataclass instance) has every field.
Objects(V) == {d \in Dicts(V) : DictKeys(d) = Fields}

Kwargs == Dicts(Vals)

UpdateArgs == Dicts(InputVals)

\* The condition expressions a caller passes to find.
Exprs == {{KeyEq("id", 1)}, {KeyEq("age", 2)}, {KeyEq("id", 1), KeyGt("ts", 1)}}

Selectors == {PRIMARY_KEY, Str("AgeIndex"), Str("ByAge")}

\* An optional index selector, then at most two condition expressions.
FindArgs ==
    LET conds == {<<>>} \cup {<<Cond(e)>> : e \in Exprs}
                        \cup {<<Cond(e), Cond(f)>> : e, f \in Exprs}
    IN  conds \cup {<<sel>> \o c : sel \in Selectors, c \in conds}

FindKwargs == Dicts({1})

----------------------------------------------------------------------------
(* _TableGetter, the registry of tables (src/dynamesa.py:213-323)          *)
(*                                                                         *)
(* A table name is the sequence of its characters, so that the prefix is   *)
(* concatenated and startswith is computed.  The key schema and the        *)
(* indexes create passes on play no part in what the registry caches and   *)
(* are left out.                                                           *)

\* str.startswith
StartsWith(s, p) == Len(s) >= Len(p) /\ SubSeq(s, 1, Len(p)) = p

Prefixes == {<<>>, <<"t", "-">>}

Names == {<<"A">>, <<"B">>}

ItemTypes == {"dict", "User"}

\* The names a table of the service can have: with and without the prefix.
ServiceNames == {p \o n : p \in Prefixes, n \in Names}

\* Table(table_name, item_type): a new object, told from every other by its id.
Table(id, table_name, item_type) == [id |-> id, name |-> table_name, item_type |-> item_type]

NoTable == [id |-> 0, name |-> <<>>, item_type |-> ""]

RECURSIVE TableNames(_)
\* res["TableNames"] of list_tables: the names of the service's tables, in its order.
TableNames(S) ==
    IF S = {} THEN <<>>
    ELSE LET n == CHOOSE x \in S : TRUE IN <<n>> \o TableNames(S \ {n})

\* The registry and the service as one value r, for the methods below:
\* r.service, r._tables, r.made and r.listings, the list_tables calls made.
Registry == [service |-> service, _tables |-> _tables, made |-> made, listings |-> 0]

\* _TableGetter.reload: list the tables, empty the cache, make a Table per name.
reload(r) ==
    LET names == TableNames(r.service)
    IN  [r EXCEPT !._tables = [k \in {<<names[i], "dict">> : i \in DOMAIN names} |->
                                 Table(r.made + (CHOOSE i \in DOMAIN names : names[i] = k[1]),
                                       k[1], "dict")],
                  !.made = r.made + Len(names),
                  !.listings = r.listings + 1]

\* "if (table_name, dict) not in self._tables: self.reload()"
ReloadOnMiss(r, name) == IF <<name, "dict">> \notin DOMAIN r._tables THEN reload(r) ELSE r

\* The rest of get: the cached Table, or a new one that it caches.
Lookup(r, name, item_type) ==
    IF <<name, item_type>> \in DOMAIN r._tables
    THEN [reg |-> r, result |-> r._tables[<<name, item_type>>]]
    ELSE [reg |-> [r EXCEPT !._tables = (<<name, item_type>> :> Table(r.made + 1, name, item_type))
                                        @@ r._tables,
                            !.made = r.made + 1],
          result |-> Table(r.made + 1, name, item_type)]

\* _TableGetter.get
get(r, table_name, item_type) ==
    Lookup(ReloadOnMiss(r, table_name_prefix \o table_name),
           table_name_prefix \o table_name, item_type)

\* "if not self._tables: self.reload()" of __iter__ and __len__
ReloadIfEmpty(r) == IF DOMAIN r._tables = {} THEN reload(r) ELSE r

\* _TableGetter.__len__
len(r) == Cardinality(DOMAIN r._tables)

\* _TableGetter.__iter__: the Table objects it yields.
iter(r) ==
    {r._tables[k] : k \in {j \in DOMAIN r._tables :
                             StartsWith(r._tables[j].name, table_name_prefix)}}

\* The loop of delete: the entries of the table leave the cache.
PopTable(cache, name) == [k \in {j \in DOMAIN cache : j[1] # name} |-> cache[k]]

\* The record of a call on the registry: cached tells whether the cache held the
\* requested (name, item type) when get was called, prior is the handle an
\* earlier get returned for it (NoTable if none did since the table was deleted).
TablesCall(op, arg, outcome, result, listings, cached, prior) ==
    [op |-> op, arg |-> arg, outcome |-> outcome, result |-> result,
     listings |-> listings, cached |-> cached, prior |-> prior]

NoTablesCall == TablesCall("none", <<>>, "returned", NoTable, 0, FALSE, NoTable)

\* The registry after a method ran.
Becomes(r) ==
    /\ service' = r.service
    /\ _tables' = r._tables
    /\ made' = r.made

\* tables.get(table_name, item_type)
TablesGet(table_name, item_type) ==
    LET key == <<table_name_prefix \o table_name, item_type>>
        got == get(Registry, table_name, item_type)
    IN  /\ got.reg.made <= MaxMade
        /\ Becomes(got.reg)
        /\ lastTables' = TablesCall("get", key, "returned", got.result, got.reg.listings,
                                    key \in DOMAIN _tables,
                                    IF key \in DOMAIN handles THEN handles[key] ELSE NoTable)
        /\ handles' = (key :> got.result) @@ handles
        /\ UNCHANGED <<tableVars, table_name_prefix, threads>>

\* tables.create(table_name, pk, item_type=item_type): the service refuses a
\* name it has; otherwise the table exists when get is called.
TablesCreate(table_name, item_type) ==
    LET name == table_name_prefix \o table_name
        got == get([Registry EXCEPT !.service = service \cup {name}], table_name, item_type)
    IN  /\ UNCHANGED <<tableVars, table_name_prefix, handles, threads>>
        /\ IF name \in service
           THEN /\ lastTables' = TablesCall("create", name, "ClientError", NoTable, 0,
                                            FALSE, NoTable)
                /\ UNCHANGED <<service, _tables, made>>
           ELSE /\ Cardinality(service) < MaxTables
                /\ got.reg.made <= MaxMade
                /\ Becomes(got.reg)
                /\ lastTables' = TablesCall("create", name, "returned", got.result,
                                            got.reg.listings, FALSE, NoTable)

\* The handles a caller can hold: those in the cache and those get returned.
Held == {_tables[k] : k \in DOMAIN _tables} \cup {handles[k] : k \in DOMAIN handles}

\* tables.delete(table_name), with prefixed_table_name worked out: the service
\* refuses a name it does not have.
DeletePrefixed(name) ==
    /\ UNCHANGED <<tableVars, table_name_prefix, made, threads>>
    /\ IF name \notin service
       THEN /\ lastTables' = TablesCall("delete", name, "ClientError", NoTable, 0,
                                        FALSE, NoTable)
            /\ UNCHANGED <<service, _tables, handles>>
       ELSE /\ service' = service \ {name}
            /\ _tables' = PopTable(_tables, name)
            /\ handles' = PopTable(handles, name)
            /\ lastTables' = TablesCall("delete", name, "returned", NoTable, 0,
                                        FALSE, NoTable)

\* delete by name
TablesDelete(table_name) == DeletePrefixed(table_name_prefix \o table_name)

\* delete by reference: "prefixed_table_name = table_name.table.name"
TablesDeleteTable(t) == DeletePrefixed(t.name)

\* tables.reload()
TablesReload ==
    /\ reload(Registry).made <= MaxMade
    /\ Becomes(reload(Registry))
    /\ lastTables' = TablesCall("reload", <<>>, "returned", NoTable, 1, FALSE, NoTable)
    /\ UNCHANGED <<tableVars, table_name_prefix, handles, threads>>

\* len(tables)
TablesLen ==
    /\ ReloadIfEmpty(Registry).made <= MaxMade
    /\ Becomes(ReloadIfEmpty(Registry))
    /\ lastTables' = TablesCall("len", <<>>, "returned", len(ReloadIfEmpty(Registry)),
                                ReloadIfEmpty(Registry).listings, FALSE, NoTable)
    /\ UNCHANGED <<tableVars, table_name_prefix, handles, threads>>

\* list(tables)
TablesIter ==
    /\ ReloadIfEmpty(Registry).made <= MaxMade
    /\ Becomes(ReloadIfEmpty(Registry))
    /\ lastTables' = TablesCall("iter", <<>>, "returned", iter(ReloadIfEmpty(Registry)),
                                ReloadIfEmpty(Registry).listings, FALSE, NoTable)
    /\ UNCHANGED <<tableVars, table_name_prefix, handles, threads>>

\* No registry is in use.
NoTables ==
    /\ table_name_prefix = <<>>
    /\ service = {}
    /\ _tables = <<>>
    /\ made = 0
    /\ lastTables = NoTablesCall
    /\ handles = <<>>
    /\ threads = <<>>

----------------------------------------------------------------------------

Init ==
    /\ key_schema \in Schemas
    /\ store = {}
    /\ caller = NoCaller
    /\ last = NoCall
    /\ gen = NoGen
    /\ again = FALSE
    /\ NoTables

Next ==
    \/ \E kwargs \in Kwargs : Get(kwargs)
    \/ \E item \in UpdateArgs : Put("dict", item)
    \/ \E item \in Objects(InputVals) : Put("object", item)
    \/ \E arg \in UpdateArgs : Update("dict", arg)
    \/ \E arg \in Objects(InputVals) : Update("object", arg)
    \/ Discard

Spec == Init /\ [][Next]_vars

NextFind ==
    \/ \E item \in Dicts(Vals) : Put("dict", item)
    \/ \E args \in FindArgs, kwargs \in FindKwargs : FindCall(args, kwargs)
    \/ GenNext
    \/ GenClose
    \/ \E args \in FindArgs, kwargs \in FindKwargs : Clear(args, kwargs)
    \/ ClearAgain
    \/ Discard

SpecFind == Init /\ [][NextFind]_vars

\* A registry with its prefix, over a service that holds some tables already;
\* the class attribute _tables starts as the empty dict.
InitTables ==
    /\ key_schema = <<"id">>
    /\ store = {}
    /\ caller = NoCaller
    /\ last = NoCall
    /\ gen = NoGen
    /\ again = FALSE
    /\ table_name_prefix \in Prefixes
    /\ service \in {S \in SUBSET ServiceNames : Cardinality(S) <= MaxTables}
    /\ _tables = <<>>
    /\ made = 0
    /\ lastTables = NoTablesCall
    /\ handles = <<>>
    /\ threads = <<>>

NextTables ==
    \/ \E table_name \in Names, item_type \in ItemTypes : TablesGet(table_name, item_type)
    \/ \E table_name \in Names, item_type \in ItemTypes : TablesCreate(table_name, item_type)
    \/ \E table_name \in Names : TablesDelete(table_name)
    \/ \E t \in Held : TablesDeleteTable(t)
    \/ TablesReload
    \/ TablesLen
    \/ TablesIter

SpecTables == InitTables /\ [][NextTables]_vars

----------------------------------------------------------------------------
(* Threads inside _TableGetter.get at once.  The interpreter can switch    *)
(* threads between any two statements and around every call; a step below  *)
(* is one test, one assignment or one subscription of self._tables.        *)

Threads == {1, 2}

\* A thread that is about to call tables.get(table_name, item_type).
Calling(table_name, item_type) ==
    [pc |-> "get", table_name |-> table_name_prefix \o table_name, item_type |-> item_type,
     names |-> <<>>, listings |-> 0, result |-> NoTable, error |-> ""]

\* The thread t moves on as th; the others stay where they are.
Moves(t, th) == threads' = [threads EXCEPT ![t] = th]

\* line 299: "if (table_name, dict) not in self._tables"
GetTest(t) ==
    /\ threads[t].pc = "get"
    /\ Moves(t, [threads[t] EXCEPT !.pc =
                    IF <<threads[t].table_name, "dict">> \notin DOMAIN _tables
                    THEN "list" ELSE "check"])
    /\ UNCHANGED <<tableVars, table_name_prefix, service, _tables, made, lastTables, handles>>

\* line 226: res = self.dynamodb.meta.client.list_tables()
ReloadList(t) ==
    /\ threads[t].pc = "list"
    /\ Moves(t, [threads[t] EXCEPT !.pc = "assign", !.names = TableNames(service),
                                   !.listings = threads[t].listings + 1])
    /\ UNCHANGED <<tableVars, table_name_prefix, service, _tables, made, lastTables, handles>>

\* line 227: self._tables = {}
ReloadAssign(t) ==
    /\ threads[t].pc = "assign"
    /\ _tables' = <<>>
    /\ Moves(t, [threads[t] EXCEPT !.pc = "fill"])
    /\ UNCHANGED <<tableVars, table_name_prefix, service, made, lastTables, handles>>

\* lines 228-229: one turn of the loop stores a new Table in the dict that
\* self._tables is now; the end of the loop returns to get.
ReloadFill(t) ==
    /\ threads[t].pc = "fill"
    /\ IF threads[t].names = <<>>
       THEN /\ Moves(t, [threads[t] EXCEPT !.pc = "check"])
            /\ UNCHANGED <<_tables, made>>
       ELSE /\ _tables' = (<<Head(threads[t].names), "dict">> :>
                              Table(made + 1, Head(threads[t].names), "dict")) @@ _tables
            /\ made' = made + 1
            /\ Moves(t, [threads[t] EXCEPT !.names = Tail(threads[t].names)])
    /\ UNCHANGED <<tableVars, table_name_prefix, service, lastTables, handles>>

\* line 301: "if (table_name, item_type) in self._tables"
GetCheck(t) ==
    /\ threads[t].pc = "check"
    /\ Moves(t, [threads[t] EXCEPT !.pc =
                    IF <<threads[t].table_name, threads[t].item_type>> \in DOMAIN _tables
                    THEN "return" ELSE "construct"])
    /\ UNCHANGED <<tableVars, table_name_prefix, service, _tables, made, lastTables, handles>>

\* line 302: "return self._tables[table_name, item_type]", a KeyError when the
\* dict that self._tables is now has no such key.
GetReturn(t) ==
    /\ threads[t].pc = "return"
    /\ Moves(t, IF <<threads[t].table_name, threads[t].item_type>> \in DOMAIN _tables
                THEN [threads[t] EXCEPT !.pc = "done",
                         !.result = _tables[<<threads[t].table_name, threads[t].item_type>>]]
                ELSE [threads[t] EXCEPT !.pc = "raised", !.error = "KeyError"])
    /\ UNCHANGED <<tableVars, table_name_prefix, service, _tables, made, lastTables, handles>>

\* lines 304-306: a new Table is stored in the dict that self._tables is now,
\* and returned.
GetConstruct(t) ==
    /\ threads[t].pc = "construct"
    /\ _tables' = (<<threads[t].table_name, threads[t].item_type>> :>
                      Table(made + 1, threads[t].table_name, threads[t].item_type)) @@ _tables
    /\ made' = made + 1
    /\ Moves(t, [threads[t] EXCEPT !.pc = "done",
                    !.result = Table(made + 1, threads[t].table_name, threads[t].item_type)])
    /\ UNCHANGED <<tableVars, table_name_prefix, service, lastTables, handles>>

\* Each thread is about to call get for some table of the service, on a
\* registry whose cache is empty yet; the tables of the service do not change.
InitThreads ==
    /\ key_schema = <<"id">>
    /\ store = {}
    /\ caller = NoCaller
    /\ last = NoCall
    /\ gen = NoGen
    /\ again = FALSE
    /\ table_name_prefix \in Prefixes
    /\ service \in {S \in SUBSET ServiceNames : Cardinality(S) <= MaxTables}
    /\ _tables = <<>>
    /\ made = 0
    /\ lastTables = NoTablesCall
    /\ handles = <<>>
    /\ threads \in [Threads -> {Calling(n, it) :
                                   n \in {m \in Names : table_name_prefix \o m \in service},
                                   it \in ItemTypes}]

NextThreads ==
    \/ \E t \in Threads : GetTest(t)
    \/ \E t \in Threads : ReloadList(t)
    \/ \E t \in Threads : ReloadAssign(t)
    \/ \E t \in Threads : ReloadFill(t)
    \/ \E t \in Threads : GetCheck(t)
    \/ \E t \in Threads : GetReturn(t)
    \/ \E t \in Threads : GetConstruct(t)

SpecThreads == InitThreads /\ [][NextThreads]_vars

----------------------------------------------------------------------------
(* Properties of get, put and update *)

\* The last call was an update that issued its request and returned.
UpdateReturned == last.op = "update" /\ last.outcome = "returned"

\* The key the last put or update addressed (when its argument has the key attributes).
ArgKey == [k \in SeqSet(key_schema) |-> DictGet(last.arg, k)]

ArgNonKey == DictKeys(last.arg) \ SeqSet(key_schema)

\* The attributes of the item stored under key in the set of items S (none if there is no item).
ItemIn(S, key) ==
    LET found == {it \in S : [k \in SeqSet(key_schema) |-> it[k]] = key}
    IN  IF found = {} THEN <<>> ELSE CHOOSE it \in found : TRUE

Others(S, key) == {it \in S : [k \in SeqSet(key_schema) |-> it[k]] # key}

\* The attribute f is the same in the items a and b: absent in both, or of one value.
SameField(a, b, f) ==
    /\ f \in DOMAIN a <=> f \in DOMAIN b
    /\ f \in DOMAIN a => a[f] = b[f]

\* C1 as stated: after an update returns, every non-key field of the update marked
\* REMOVE_KEY is absent from the stored item, every other non-key field of the
\* update holds the supplied value, every stored field the update does not name is
\* unchanged, and the items under other keys are unchanged.
C1_AsStated ==
    UpdateReturned =>
        LET old == ItemIn(last.pre, ArgKey)
            new == ItemIn(store, ArgKey)
        IN  /\ new # <<>>
            /\ \A f \in ArgNonKey :
                  IF DictGet(last.arg, f) = REMOVE_KEY
                  THEN f \notin DOMAIN new
                  ELSE f \in DOMAIN new /\ new[f] = DictGet(last.arg, f)
            /\ \A f \in Fields \ DictKeys(last.arg) : SameField(old, new, f)
            /\ Others(store, ArgKey) = Others(last.pre, ArgKey)

\* C1 (amended): as C1_AsStated, but a non-key field of the update whose value is
\* MISSING_KEY is not set: it is left as it was stored, like a field the update
\* does not name.
C1_UpdateEffect ==
    UpdateReturned =>
        LET old == ItemIn(last.pre, ArgKey)
            new == ItemIn(store, ArgKey)
        IN  /\ new # <<>>
            /\ \A f \in ArgNonKey :
                  IF DictGet(last.arg, f) = REMOVE_KEY
                  THEN f \notin DOMAIN new
                  ELSE IF DictGet(last.arg, f) = MISSING_KEY
                  THEN SameField(old, new, f)
                  ELSE f \in DOMAIN new /\ new[f] = DictGet(last.arg, f)
            /\ \A f \in Fields \ DictKeys(last.arg) : SameField(old, new, f)
            /\ \A k \in SeqSet(key_schema) : new[k] = DictGet(last.arg, k)
            /\ Others(store, ArgKey) = Others(last.pre, ArgKey)

\* An update of a stored item returned that removed a stored field and left
\* another stored field, which it does not name, alone; another item is stored.
C1_Witness ==
    /\ UpdateReturned
    /\ ItemIn(last.pre, ArgKey) # <<>>
    /\ Others(last.pre, ArgKey) # {}
    /\ \E f \in ArgNonKey :
          DictGet(last.arg, f) = REMOVE_KEY /\ f \in DOMAIN ItemIn(last.pre, ArgKey)
    /\ \E f \in Fields \ DictKeys(last.arg) : f \in DOMAIN ItemIn(last.pre, ArgKey)

\* C2: get issues a GetItem request, for the key made of its keyword arguments,
\* if and only if the names of its keyword arguments are exactly the key
\* attributes of the table; otherwise it raises ValueError and issues no request;
\* and when the request finds no item it raises DoesNotExist and returns nothing.
C2_GetRequest ==
    last.op = "get" =>
        /\ last.requests # <<>> <=> DictKeys(last.arg) = SeqSet(key_schema)
        /\ DictKeys(last.arg) # SeqSet(key_schema) =>
              last.outcome = "ValueError" /\ last.requests = <<>>
        /\ last.requests # <<>> =>
              /\ Len(last.requests) = 1
              /\ last.requests[1].op = "GetItem"
              /\ last.requests[1].Key = AsItem(last.arg)
              /\ IF ItemIn(last.pre, AsItem(last.arg)) = <<>>
                 THEN last.outcome = "DoesNotExist" /\ last.result = None
                 ELSE last.outcome = "returned"
                      /\ last.result = ItemIn(last.pre, AsItem(last.arg))
        /\ store = last.pre

\* A get with the full key of a table with a hash and a range key found no item,
\* while the table holds an item with the same hash key.
C2_Witness ==
    /\ last.op = "get"
    /\ Len(key_schema) = 2
    /\ last.outcome = "DoesNotExist"
    /\ \E it \in store : it.id = DictGet(last.arg, "id")

\* C3: an update whose mapping lacks a primary-key field, or has no field besides
\* the primary key, fails with an error, issues no UpdateItem request, and leaves
\* the caller's mapping or object (and the table) as it was.
C3_UpdateRejected ==
    (/\ last.op = "update"
     /\ \/ ~(SeqSet(key_schema) \subseteq DictKeys(last.arg))
        \/ ArgNonKey = {})
    => /\ last.outcome = "ValueError"
       /\ last.requests = <<>>
       /\ caller = [kind |-> last.kind, d |-> last.arg]
       /\ store = last.pre

\* An update was rejected for a missing key field although it marked a field
\* REMOVE_KEY.
C3_Witness ==
    /\ last.op = "update"
    /\ last.error = "missing key"
    /\ \E f \in DictKeys(last.arg) : DictGet(last.arg, f) = REMOVE_KEY

\* The placeholders of a request that stand for the attribute f.
PlaceholdersOf(req, f) ==
    {a \in DOMAIN req.ExpressionAttributeNames : req.ExpressionAttributeNames[a] = f}

MissingFields == {f \in DictKeys(last.arg) : DictGet(last.arg, f) = MISSING_KEY}

\* C4: a field whose value is MISSING_KEY never reaches the service: the item put
\* sends and stores has no such field, no stored item ever holds MISSING_KEY, and
\* an update has no placeholder, SET clause or REMOVE clause for it and leaves the
\* stored value of the field as it was.
C4_MissingKeyOmitted ==
    /\ \A it \in store : \A f \in DOMAIN it : it[f] # MISSING_KEY
    /\ last.op = "put" =>
          /\ \A i \in DOMAIN last.requests :
                /\ DOMAIN last.requests[i].Item = DictKeys(last.arg) \ MissingFields
                /\ \A f \in DOMAIN last.requests[i].Item :
                      last.requests[i].Item[f] = DictGet(last.arg, f)
          /\ last.outcome = "returned" =>
                /\ last.requests # <<>>
                /\ last.requests[1].Item \in store
    /\ last.op = "update" =>
          /\ \A i \in DOMAIN last.requests : \A f \in MissingFields :
                LET req == last.requests[i]
                IN  /\ PlaceholdersOf(req, f) = {}
                    /\ \A j \in DOMAIN req.SetClauses :
                          req.ExpressionAttributeNames[req.SetClauses[j].name] # f
                    /\ \A j \in DOMAIN req.RemoveClauses :
                          req.ExpressionAttributeNames[req.RemoveClauses[j].name] # f
                    /\ \A v \in DOMAIN req.ExpressionAttributeValues :
                          req.ExpressionAttributeValues[v] # MISSING_KEY
          /\ (SeqSet(key_schema) \subseteq DictKeys(last.arg) \ MissingFields) =>
                \A f \in MissingFields :
                    SameField(ItemIn(last.pre, ArgKey), ItemIn(store, ArgKey), f)

\* An update returned whose mapping gives MISSING_KEY for a field that the
\* stored item has.
C4_Witness ==
    /\ UpdateReturned
    /\ \E f \in MissingFields : f \in DOMAIN ItemIn(last.pre, ArgKey)

\* The caller's mapping or object once the fields it marked REMOVE_KEY are
\* forgotten: dropped from a dict, set to MISSING_KEY on an object.
Forgotten(kind, arg) ==
    IF kind = "dict"
    THEN SelectSeq(arg, LAMBDA p : p[2] # REMOVE_KEY)
    ELSE [i \in DOMAIN arg |->
            IF arg[i][2] = REMOVE_KEY THEN <<arg[i][1], MISSING_KEY>> ELSE arg[i]]

\* C5: when update issues its UpdateItem request, the caller's dict has lost every
\* field marked REMOVE_KEY (an object has them set to MISSING_KEY) and is
\* otherwise as the caller passed it, primary key included; it is still so after
\* the call, whether the request succeeded or failed.
C5_CallerMutated ==
    (last.op = "update" /\ last.requests # <<>>) =>
        /\ last.callerAtRequest = Forgotten(last.kind, last.arg)
        /\ caller = [kind |-> last.kind, d |-> Forgotten(last.kind, last.arg)]

\* The request of an update with an object that marks a field REMOVE_KEY failed.
C5_Witness ==
    /\ last.op = "update"
    /\ last.kind = "object"
    /\ last.outcome = "ClientError"
    /\ \E f \in DictKeys(last.arg) : DictGet(last.arg, f) = REMOVE_KEY

----------------------------------------------------------------------------
(* Properties of find and clear *)

\* The generators whose body has run: the one the caller holds, and the one the
\* last clear consumed.
Started(g) == g.pc \in {"running", "done", "raised"} \/ (g.pc = "closed" /\ g.requested > 0)

Generators ==
    (IF gen.pc # "none" THEN {gen} ELSE {})
        \cup (IF last.op = "clear" THEN {last.result} ELSE {})

\* The generator the caller holds.
Found == IF gen.pc # "none" THEN {gen} ELSE {}

\* The errors that the body of find raises itself.
OwnErrors == {"NameError", "KeyError", "RuntimeError", "AssertionError"}

RECURSIVE Flatten(_)
Flatten(pages) == IF pages = <<>> THEN <<>> ELSE Head(pages) \o Flatten(Tail(pages))

Front(seq) == SubSeq(seq, 1, Len(seq) - 1)

KwargsEqs(kwargs, names) == {KeyEq(k, DictGet(kwargs, k)) : k \in names}

\* C6 as stated: find with an index selector and an explicit key condition uses
\* that expression as the key condition of a query, ANDs every keyword argument
\* and the optional trailing expression into the filter, and yields the matching
\* items without raising.
C6_AsStated ==
    \A g \in Found :
        (/\ Started(g)
         /\ ExplicitKeyCondition(g.args)
         /\ Len(Trailing(g.args)) <= 1)
        => /\ g.error \notin OwnErrors
           /\ g.req.op = "query"
           /\ g.req.params["KeyConditionExpression"] = AfterSelector(g.args)[1].expr
           /\ Optional(g.req.params, "FilterExpression")
                 = KwargsEqs(g.kwargs, DictKeys(g.kwargs))
                      \cup UNION {Trailing(g.args)[i].expr : i \in DOMAIN Trailing(g.args)}
           /\ g.pc = "done" => SeqSet(g.yielded) = {it \in store : Matches(it, g.req)}

\* The key schema of the index a selector names, among all the indexes declared
\* on the table.
DeclaredSchemas(sel) ==
    IF sel = PRIMARY_KEY THEN {key_schema}
    ELSE {idx.KeySchema : idx \in {i \in GlobalSecondaryIndexes \cup LocalSecondaryIndexes :
                                      i.IndexName = sel.name}}

\* C7 as stated: find with the selector of an index declared on the table and no
\* positional key condition queries with the AND of one equality per key field of
\* the index, valued from the keywords, and filters on every other keyword; if a
\* key field has no keyword it fails with KeyError.
C7_AsStated ==
    \A g \in Found :
        (/\ Started(g)
         /\ HasSelector(g.args)
         /\ ~ExplicitKeyCondition(g.args)
         /\ DeclaredSchemas(g.args[1]) # {})
        => LET schema == SeqSet(CHOOSE sch \in DeclaredSchemas(g.args[1]) : TRUE)
           IN  IF schema \subseteq DictKeys(g.kwargs)
               THEN /\ g.error = ""
                    /\ g.req.op = "query"
                    /\ g.req.params["KeyConditionExpression"] = KwargsEqs(g.kwargs, schema)
                    /\ Optional(g.req.params, "FilterExpression")
                          = KwargsEqs(g.kwargs, DictKeys(g.kwargs) \ schema)
               ELSE g.error = "KeyError" /\ g.requested = 0

\* What C8 says of the request of a generator that issued one.
Dispatched(g) ==
    /\ g.req.op = "query" <=> HasSelector(g.args)
    /\ g.req.op = "scan" <=> ~HasSelector(g.args)
    /\ "IndexName" \in DOMAIN g.req.params
          <=> (HasSelector(g.args) /\ g.args[1] # PRIMARY_KEY)
    /\ "IndexName" \in DOMAIN g.req.params => g.req.params["IndexName"] = g.args[1].name
    /\ g.req.op = "scan" => "KeyConditionExpression" \notin DOMAIN g.req.params
    /\ g.req.op = "query" => "KeyConditionExpression" \in DOMAIN g.req.params

C9_ClearEffect ==
    last.op = "clear" =>
        /\ last.outcome = "returned" =>
              /\ store = {it \in last.pre : ~Matches(it, last.result.req)}
              /\ Len(last.requests) = Len(last.result.yielded)
              /\ \A i \in DOMAIN last.requests :
                    /\ DOMAIN last.requests[i].Key = SeqSet(key_schema)
                    /\ \A k \in SeqSet(key_schema) :
                          last.requests[i].Key[k] = last.result.yielded[i][k]
              /\ SeqSet(last.result.yielded) = {it \in last.pre : Matches(it, last.result.req)}
        /\ last.outcome # "returned" => store = last.pre /\ last.requests = <<>>
        /\ again =>
              /\ last.outcome = "returned"
              /\ last.requests = <<>>
              /\ store = last.pre

\* A clear by index deleted an item and left another one stored.
C9_Witness ==
    /\ last.op = "clear"
    /\ last.outcome = "returned"
    /\ HasSelector(last.arg.args)
    /\ last.requests # <<>>
    /\ store # {}

\* What holds of a generator at every moment: it has asked for no page before its
\* first next(); what it has yielded and what is left of the current page are the
\* items of the pages it got, in page order; it yields no item twice; and while it
\* waits at a yield, or after the consumer stopped there, the last page it asked
\* for is the one of the item it yielded last.
Lazy(g) ==
    /\ g.pc = "created" => g.requested = 0 /\ g.pages = <<>> /\ g.yielded = <<>>
    /\ g.requested \in {Len(g.pages), Len(g.pages) + 1}
    /\ g.yielded \o g.buffer = Flatten(g.pages)
    /\ \A i, j \in DOMAIN g.yielded : g.yielded[i] = g.yielded[j] => i = j
    /\ g.pc = "running" \/ (g.pc = "closed" /\ g.requested > 0) =>
          /\ g.pages # <<>>
          /\ Len(g.yielded) > Len(Flatten(Front(g.pages)))
    /\ g.pc = "done" => g.exhausted /\ g.buffer = <<>>

\* C10: the sequence find returns is lazy and forward-only (Lazy holds of every
\* generator in every state), and once the consumer has stopped, the generator
\* asks for no page and yields no item any more.
C10_LazyForwardOnly ==
    /\ [](\A g \in Generators : Lazy(g))
    /\ [][gen.pc = "closed" => (gen'.pc = "none" \/ gen' = gen)]_vars

\* The consumer stopped a scan after the first item of a first page, with
\* another page left to ask for.
C10_Witness ==
    /\ gen.pc = "closed"
    /\ gen.requested = 1
    /\ Len(gen.yielded) = 1
    /\ ~gen.exhausted

----------------------------------------------------------------------------
(* The UpdateExpression of update *)

\* An update call sent its UpdateItem request.
UpdateSent == last.op = "update" /\ last.requests # <<>>

\* The fields the call updates, in the order of the input mapping: those of the
\* argument that are no key attribute and whose value is not MISSING_KEY.
UpdatedFields ==
    SelectSeq(last.arg, LAMBDA p : p[1] \notin SeqSet(key_schema) /\ p[2] # MISSING_KEY)

\* The positions (from 1) of the updated fields that are removed, and that are set.
RemovedAt ==
    SelectSeq([i \in DOMAIN UpdatedFields |-> i], LAMBDA i : UpdatedFields[i][2] = REMOVE_KEY)

SetAt ==
    SelectSeq([i \in DOMAIN UpdatedFields |-> i], LAMBDA i : UpdatedFields[i][2] # REMOVE_KEY)

\* The placeholders of the field at position i: its index is i - 1.
NamePlaceholder(i) == "#a" \o ToString(i - 1)

ValuePlaceholder(i) == ":v" \o ToString(i - 1)

\* 'SET' and one '#aI = :vI' clause per set field, comma-joined.
SetSegment ==
    "SET " \o Join([n \in DOMAIN SetAt |->
                       NamePlaceholder(SetAt[n]) \o " = " \o ValuePlaceholder(SetAt[n])], ", ")

\* 'REMOVE' and one '#aI' per removed field, comma-joined.
RemoveSegment ==
    "REMOVE " \o Join([n \in DOMAIN RemovedAt |-> NamePlaceholder(RemovedAt[n])], ", ")

\* The two maps of the request: every updated field has its name placeholder,
\* every set field its value placeholder, and there is no other entry.
PlaceholderMaps ==
    LET req == last.requests[1]
    IN  /\ Cardinality({NamePlaceholder(i) : i \in DOMAIN UpdatedFields}) = Len(UpdatedFields)
        /\ req.ExpressionAttributeNames =
               [a \in {NamePlaceholder(i) : i \in DOMAIN UpdatedFields} |->
                   UpdatedFields[CHOOSE i \in DOMAIN UpdatedFields : NamePlaceholder(i) = a][1]]
        /\ req.ExpressionAttributeValues =
               [v \in {ValuePlaceholder(SetAt[n]) : n \in DOMAIN SetAt} |->
                   UpdatedFields[CHOOSE i \in DOMAIN UpdatedFields : ValuePlaceholder(i) = v][2]]

----------------------------------------------------------------------------
(* Properties of the registry *)

\* The tables of the service whose name starts with the prefix of the registry.
Visible == {n \in service : StartsWith(n, table_name_prefix)}

\* What len and iteration give in the current state.
LenNow == len(ReloadIfEmpty(Registry))

IterNow == iter(ReloadIfEmpty(Registry))

\* C11 as stated: after any sequence of create, get, delete and reload, len(registry)
\* equals the number of tables that iterating the registry yields, and both count
\* each table of the service whose name starts with the prefix once and no other.
C11_AsStated ==
    /\ lastTables.op = "len" =>
          /\ lastTables.result = Cardinality(IterNow)
          /\ lastTables.result = Cardinality(Visible)
    /\ lastTables.op = "iter" =>
          /\ Cardinality(lastTables.result) = LenNow
          /\ Cardinality(lastTables.result) = Cardinality(Visible)
          /\ {t.name : t \in lastTables.result} = Visible

\* C14 as stated: once get(name, item_type) has returned a handle, every later
\* get(name, item_type) returns the identical handle until the table is deleted
\* through the registry, and get lists the tables only when the requested handle
\* is not in the cache.
C14_AsStated ==
    lastTables.op = "get" =>
        /\ lastTables.prior # NoTable => lastTables.result = lastTables.prior
        /\ lastTables.listings > 0 => ~lastTables.cached

\* The orders in which the calls of the threads can run one after another.
Orders == {o \in [1..Cardinality(Threads) -> Threads] : \A i, j \in DOMAIN o : o[i] = o[j] => i = j}

RECURSIVE OneAfterAnother(_, _)
\* The registry after the calls of the threads ran in the order o, from r.
OneAfterAnother(r, o) ==
    IF o = <<>> THEN r
    ELSE OneAfterAnother(
            Lookup(ReloadOnMiss(r, threads[Head(o)].table_name),
                   threads[Head(o)].table_name, threads[Head(o)].item_type).reg,
            Tail(o))

\* The keys of the cache after the calls ran one after another, for each order.
SequentialCaches ==
    {DOMAIN OneAfterAnother([service |-> service, _tables |-> <<>>, made |-> 0, listings |-> 0],
                            o)._tables : o \in Orders}

Finished == threads # <<>> /\ \A t \in Threads : threads[t].pc \in {"done", "raised"}

\* C12 as stated: when several threads call get at once over an unchanging set of
\* service tables, no call raises, every call returns a handle for the table and
\* item type it asked for, and once all calls have finished the cache holds what
\* it would hold had the calls run one after another.
C12_AsStated ==
    threads # <<>> =>
        /\ \A t \in Threads : threads[t].pc # "raised"
        /\ \A t \in Threads : threads[t].pc = "done" =>
              /\ threads[t].result.name = threads[t].table_name
              /\ threads[t].result.item_type = threads[t].item_type
        /\ Finished => DOMAIN _tables \in SequentialCaches

====
